---- MODULE Spec2Model ----
(***************************************************************************)
(* Healthcare supply chain: the HTTP route layer of backend/main.py with   *)
(* its in-memory store, and the ledger client of                           *)
(* backend/blockchain_service.py talking to the deployed contracts.        *)
(*                                                                         *)
(* Timestamps are int(datetime.now().timestamp()); the model counts them   *)
(* in whole days relative to the moment main.py is imported (day 0), which *)
(* is the unit every seeded timedelta is written in.                       *)
(***************************************************************************)
EXTENDS Integers, Sequences, FiniteSets, TLC

VARIABLES
    medicines,        \* BLOCKCHAIN_MEDICINES: list of medicine dicts
    temperatureData,  \* BLOCKCHAIN_TEMPERATURE_DATA: dict id -> list of readings
    locationData,     \* BLOCKCHAIN_LOCATION_DATA: dict id -> list of location events
    stagesData,       \* BLOCKCHAIN_STAGES_DATA: dict id -> list of stages
    now,              \* the wall clock read by datetime.now()
    last,             \* the request handled last together with its response
    sunk,             \* history: ids for which expire / recall has answered success
    steps,            \* number of events (requests, clock ticks) so far
    \* ---- backend/blockchain_service.py and its environment
    descriptor,       \* ../deployment-info.json on disk: "missing", "incomplete" or "ok"
    built,            \* whether BlockchainService() returned an object (it did not raise)
    nodeUp,           \* whether the node at 127.0.0.1:8545 answers
    deployment_info,  \* self.deployment_info
    w3,               \* self.w3
    contracts,        \* self.access_control_contract / self.medicine_supply_chain_contract
    connected,        \* self.connected
    chainMeds,        \* the supply-chain contract's medicines, by id
    chainTemps,       \* the contract's temperature history per id: [values, timestamps]
    chainLocs,        \* the contract's location history per id: [values, timestamps]
    txCount,          \* the signer's transaction count on the node (its next nonce)
    sent,             \* history: transactions this client has broadcast
    result            \* the operation run last and how it ended

httpVars == <<medicines, temperatureData, locationData, stagesData, last, sunk>>

client == <<deployment_info, w3, contracts, connected>>

chain == <<chainMeds, chainTemps, chainLocs, txCount>>

svcVars == <<descriptor, built, nodeUp, client, chain, sent, result>>

vars == <<httpVars, now, steps, svcVars>>

store == <<medicines, temperatureData, locationData, stagesData>>

-----------------------------------------------------------------------------
(* Bounds of the model *)

\* events (requests and clock ticks) of the HTTP layer in one behaviour
MaxSteps == 2

\* events (operations, node changes, foreign transactions) of the ledger client
MaxCalls == 2

\* receipt polls that fit into the time wait_for_transaction_receipt waits
MaxPolls == 2

-----------------------------------------------------------------------------
(* Values *)

\* a key a dict does not hold / an Optional that is None
NoValue == "<none>"

MANUFACTURER_ADDR == "0xf39Fd6e51aad88F6F4ce6aB8827279cffFb92266"
DISTRIBUTOR_ADDR == "0x70997970C51812dc3A010C7d01b50e0d17dc79C8"
PHARMACY_ADDR == "0x3C44CdDdB6a900fa2b585dd299e03d12FA4293BC"
PATIENT1_ADDR == "0x90F79bf6EB2c4f870365E785982E1f101E93b906"
PATIENT2_ADDR == "0x15d34AAf54267DB7D7c367839AAf71A00a2C6A65"
UNKNOWN_ADDR == "0x0000000000000000000000000000000000000bad"

MedicineStatus ==
    {"MANUFACTURED", "SHIPPED_TO_DISTRIBUTOR", "RECEIVED_BY_DISTRIBUTOR",
     "SHIPPED_TO_PHARMACY", "RECEIVED_BY_PHARMACY", "SOLD_TO_PATIENT",
     "EXPIRED", "RECALLED"}

Role == {"NONE", "MANUFACTURER", "DISTRIBUTOR", "PHARMACY", "PATIENT", "ADMIN"}


OWNER_NAMES(a) ==
    CASE a = MANUFACTURER_ADDR -> "MediPharm Manufacturing Co."
      [] a = DISTRIBUTOR_ADDR -> "Global Distributors Ltd."
      [] a = PHARMACY_ADDR -> "CITY Engg Pharmacy"
      [] a = PATIENT1_ADDR -> "John Smith (Patient)"
      [] a = PATIENT2_ADDR -> "Sarah Johnson (Patient)"
      [] OTHER -> NoValue

PHARMACY_NAMES(a) ==
    CASE a = PHARMACY_ADDR -> "CITY Engg Pharmacy"
      [] a = DISTRIBUTOR_ADDR -> "Global Distributors Ltd."
      [] OTHER -> NoValue

DISTRIBUTOR_NAMES(a) ==
    CASE a = DISTRIBUTOR_ADDR -> "Global Distributors Ltd."
      [] OTHER -> NoValue

PATIENT_NAMES(a) ==
    CASE a = PATIENT1_ADDR -> "John Smith"
      [] a = PATIENT2_ADDR -> "Sarah Johnson"
      [] OTHER -> NoValue

\* dict.get(key, default)
DictGet(v, default) == IF v = NoValue THEN default ELSE v

\* Python's  a or b  on an Optional[str]
OrElse(a, b) == IF a = NoValue \/ a = "" THEN b ELSE a

\* an f-string "<prefix>{n:0<width><base>}<suffix>": the parts that make it up
Fmt(prefix, width, n, suffix) == <<prefix, width, n, suffix>>

\* a literal transaction hash of the seeded data, "<prefix><digits>"
Lit(prefix, width, n) == Fmt(prefix, width, n, NoValue)

format_status_with_recipient(status, owner_address, recipient_name) ==
    CASE status = "SHIPPED_TO_PHARMACY" ->
            <<"Shipped to ", OrElse(recipient_name, DictGet(PHARMACY_NAMES(owner_address), "Pharmacy"))>>
      [] status = "RECEIVED_BY_PHARMACY" ->
            <<"Received by ", OrElse(recipient_name, DictGet(PHARMACY_NAMES(owner_address), "Pharmacy"))>>
      [] status = "SHIPPED_TO_DISTRIBUTOR" ->
            <<"Shipped to ", OrElse(recipient_name, DictGet(DISTRIBUTOR_NAMES(owner_address), "Distributor"))>>
      [] status = "RECEIVED_BY_DISTRIBUTOR" ->
            <<"Received by ", OrElse(recipient_name, DictGet(DISTRIBUTOR_NAMES(owner_address), "Distributor"))>>
      [] status = "SOLD_TO_PATIENT" ->
            <<"Sold to ", OrElse(recipient_name, DictGet(PATIENT_NAMES(owner_address), "Patient"))>>
      [] status = "MANUFACTURED" -> <<"Manufactured">>
      [] status = "EXPIRED" -> <<"Expired">>
      [] status = "RECALLED" -> <<"Recalled">>
      [] OTHER -> <<status>>

-----------------------------------------------------------------------------
(* The seeded store *)

SeedMedicine(id, name, batch, mfg, exp, owner, status, threshold, sensitive, tx, gas) ==
    [id |-> id, name |-> name, batchNumber |-> batch,
     manufactureDate |-> mfg, expiryDate |-> exp,
     manufacturer |-> MANUFACTURER_ADDR, currentOwner |-> owner,
     status |-> status, temperatureThreshold |-> threshold,
     temperatureSensitive |-> sensitive, isActive |-> TRUE,
     blockchainTxHash |-> tx, blockNumber |-> 1000 + id, gasUsed |-> gas,
     currentOwnerName |-> NoValue, statusFormatted |-> <<NoValue>>]

BLOCKCHAIN_MEDICINES ==
    << SeedMedicine(1, "Aspirin", "ASP001", -30, 365, MANUFACTURER_ADDR,
                    "MANUFACTURED", 25, FALSE, <<"0x1234567890abcdef1234567890abcdef12345678">>, 150000),
       SeedMedicine(2, "Insulin", "INS002", -15, 180, DISTRIBUTOR_ADDR,
                    "SHIPPED_TO_DISTRIBUTOR", 8, TRUE, <<"0xabcdef1234567890abcdef1234567890abcdef12">>, 180000),
       SeedMedicine(3, "Paracetamol", "PAR003", -7, 730, PHARMACY_ADDR,
                    "RECEIVED_BY_PHARMACY", 30, FALSE, <<"0x567890abcdef1234567890abcdef1234567890ab">>, 160000),
       SeedMedicine(4, "Antibiotic", "ANT004", -45, 90, PATIENT1_ADDR,
                    "SOLD_TO_PATIENT", 20, TRUE, <<"0x7890abcdef1234567890abcdef1234567890abcd">>, 170000),
       SeedMedicine(5, "Vitamin D", "VIT005", -60, -1, PATIENT2_ADDR,
                    "EXPIRED", 25, FALSE, <<"0x90abcdef1234567890abcdef1234567890abcdef">>, 140000) >>

Reading(t, ts, tx) == [temperature |-> t, timestamp |-> ts, txHash |-> tx]

BLOCKCHAIN_TEMPERATURE_DATA ==
    (2 :> << Reading("5C", -10, Lit("0xtemp", 3, 1)), Reading("6C", -8, Lit("0xtemp", 3, 2)),
             Reading("4C", -5, Lit("0xtemp", 3, 3)), Reading("7C", -2, Lit("0xtemp", 3, 4)) >>)
    @@ (4 :> << Reading("18C", -20, Lit("0xtemp", 3, 5)), Reading("22C", -15, Lit("0xtemp", 3, 6)) >>)

Loc(l, ts, tx) == [location |-> l, timestamp |-> ts, txHash |-> tx]

BLOCKCHAIN_LOCATION_DATA ==
    (1 :> << Loc("Manufacturing Plant A", -30, Lit("0xloc", 3, 1)),
             Loc("Quality Control Lab", -28, Lit("0xloc", 3, 2)) >>)
    @@ (2 :> << Loc("Manufacturing Plant A", -15, Lit("0xloc", 3, 3)),
                Loc("Cold Storage Facility", -12, Lit("0xloc", 3, 4)),
                Loc("Distribution Center", -8, Lit("0xloc", 3, 5)) >>)
    @@ (3 :> << Loc("Manufacturing Plant A", -7, Lit("0xloc", 3, 6)),
                Loc("Warehouse B", -5, Lit("0xloc", 3, 7)),
                Loc("Pharmacy D", -2, Lit("0xloc", 3, 8)) >>)
    @@ (4 :> << Loc("Manufacturing Plant A", -45, Lit("0xloc", 3, 9)),
                Loc("Pharmacy D", -10, Lit("0xloc", 3, 10)),
                Loc("Patient Home", -1, Lit("0xloc", 3, 11)) >>)

Stage(stage, location, owner, ts, tx, recipient, pharmacy, distributor, patient) ==
    [stage |-> stage, location |-> location, owner |-> owner, timestamp |-> ts,
     txHash |-> tx, recipientName |-> recipient, pharmacyName |-> pharmacy,
     distributorName |-> distributor, patientName |-> patient]

\* a seeded stage that names nobody
PlainStage(stage, location, owner, ts, n) ==
    Stage(stage, location, owner, ts, Lit("0xstage", 3, n), NoValue, NoValue, NoValue, NoValue)

DistStage(stage, location, ts, n) ==
    Stage(stage, location, DISTRIBUTOR_ADDR, ts, Lit("0xstage", 3, n),
          "Global Distributors Ltd.", NoValue, "Global Distributors Ltd.", NoValue)

PharmStage(stage, location, ts, n) ==
    Stage(stage, location, PHARMACY_ADDR, ts, Lit("0xstage", 3, n),
          "CITY Engg Pharmacy", "CITY Engg Pharmacy", NoValue, NoValue)

BLOCKCHAIN_STAGES_DATA ==
    (1 :> << PlainStage("MANUFACTURED", "Manufacturing Plant A", MANUFACTURER_ADDR, -30, 1) >>)
    @@ (2 :> << PlainStage("MANUFACTURED", "Manufacturing Plant A", MANUFACTURER_ADDR, -15, 2),
                DistStage("SHIPPED_TO_DISTRIBUTOR", "Loading Dock A", -13, 3),
                DistStage("RECEIVED_BY_DISTRIBUTOR", "Distribution Center", -12, 4) >>)
    @@ (3 :> << PlainStage("MANUFACTURED", "Manufacturing Plant A", MANUFACTURER_ADDR, -7, 5),
                DistStage("SHIPPED_TO_DISTRIBUTOR", "Loading Dock B", -6, 6),
                DistStage("RECEIVED_BY_DISTRIBUTOR", "Warehouse B", -5, 7),
                PharmStage("SHIPPED_TO_PHARMACY", "Warehouse B - Outbound", -4, 8),
                PharmStage("RECEIVED_BY_PHARMACY", "CITY Engg Pharmacy", -2, 9) >>)
    @@ (4 :> << PlainStage("MANUFACTURED", "Manufacturing Plant A", MANUFACTURER_ADDR, -45, 10),
                DistStage("SHIPPED_TO_DISTRIBUTOR", "Loading Dock C", -43, 11),
                DistStage("RECEIVED_BY_DISTRIBUTOR", "Distribution Center", -42, 12),
                PharmStage("SHIPPED_TO_PHARMACY", "Distribution Center - Outbound", -40, 13),
                PharmStage("RECEIVED_BY_PHARMACY", "CITY Engg Pharmacy", -38, 14),
                Stage("SOLD_TO_PATIENT", "Patient Home", PATIENT1_ADDR, -1, Lit("0xstage", 3, 15),
                      "John Smith", NoValue, NoValue, "John Smith") >>)
    @@ (5 :> << PlainStage("MANUFACTURED", "Manufacturing Plant A", MANUFACTURER_ADDR, -60, 16),
                PlainStage("SHIPPED_TO_DISTRIBUTOR", "Loading Dock D", DISTRIBUTOR_ADDR, -58, 17),
                Stage("RECEIVED_BY_PHARMACY", "CITY Engg Pharmacy", PHARMACY_ADDR, -2,
                      Lit("0xstage", 3, 18), NoValue, "CITY Engg Pharmacy", NoValue, NoValue),
                PlainStage("EXPIRED", "CITY Engg Pharmacy - Expired Stock", PATIENT2_ADDR, -1, 19) >>)

-----------------------------------------------------------------------------
(* Inputs of the requests *)

\* ids the requests name: two seeded medicines (2 is temperature sensitive, 5 is
\* seeded EXPIRED and is not) and 6, which is absent until one medicine is made
TargetIds == {2, 5, 6}

Addresses == {DISTRIBUTOR_ADDR, UNKNOWN_ADDR}

RecipientNames == {NoValue, "City Clinic"}

\* expiryDate of a manufacture request: in the past, in a year, and beyond the
\* range datetime.fromtimestamp accepts (year 9999)
ExpiryDates == {-1, 365, 4000000}

BatchNumbers == {"ASP001"}

-----------------------------------------------------------------------------
(* Helpers over the store *)

\* next((i for i, m in enumerate(meds) if m["id"] == id), None), 0 for None
Find(meds, id) ==
    IF \E i \in 1..Len(meds) : meds[i].id = id
    THEN CHOOSE i \in 1..Len(meds) :
            /\ meds[i].id = id
            /\ \A j \in 1..(i - 1) : meds[j].id # id
    ELSE 0

\* next((... if m["id"] == id and m["isActive"]), None)
FindActive(meds, id) ==
    IF \E i \in 1..Len(meds) : meds[i].id = id /\ meds[i].isActive
    THEN CHOOSE i \in 1..Len(meds) :
            /\ meds[i].id = id /\ meds[i].isActive
            /\ \A j \in 1..(i - 1) : ~(meds[j].id = id /\ meds[j].isActive)
    ELSE 0

Max(S) == CHOOSE x \in S : \A y \in S : y <= x

\* d[k] = v
DictPut(d, k, v) == [x \in (DOMAIN d) \cup {k} |-> IF x = k THEN v ELSE d[x]]

\* an append that adds the entry to every list of the dict
DictAppendAll(d, k, v) ==
    [x \in (DOMAIN d) \cup {k} |-> Append(IF x \in DOMAIN d THEN d[x] ELSE <<>>, v)]

\* an append that starts the list over
DictAppendFresh(d, k, v) == DictPut(d, k, <<v>>)

\* an append that puts the new entry in front
DictPrepend(d, k, v) ==
    DictPut(d, k, <<v>> \o (IF k \in DOMAIN d THEN d[k] ELSE <<>>))

\* if k not in d: d[k] = [] ; d[k].append(v)
DictAppend(d, k, v) ==
    DictPut(d, k, Append(IF k \in DOMAIN d THEN d[k] ELSE <<>>, v))

\* datetime.fromtimestamp(ts) raises beyond year 9999
FromTimestampRaises(ts) == ts > 2900000

\* a handler's  except Exception as e: raise HTTPException(status_code=code, ...)
\* around a body that raised exc: HTTPException is an Exception, so it is caught too
Rethrown(code, prefix, exc) == [code |-> code, detail |-> <<prefix, exc.code, exc.detail>>]

NotFound404 == [code |-> 404, detail |-> <<"Medicine not found on blockchain">>]

Answer(op, id, req, resp, body) ==
    [op |-> op, id |-> id, req |-> req, code |-> resp.code, detail |-> resp.detail, body |-> body]

Ok200 == [code |-> 200, detail |-> <<>>]

\* MedicineResponse(**medicine_data) of a read: the stored dict plus the two names
WithNames(m) ==
    [m EXCEPT !.currentOwnerName = DictGet(OWNER_NAMES(m.currentOwner), "Unknown"),
              !.statusFormatted = format_status_with_recipient(m.status, m.currentOwner, NoValue)]

\* the handler assigns to the stored dict itself
assigned_in_place(stored, data) == data

\* data = stored.copy(); data[...] = ... : the stored dict once the handler has
\* assigned to the copy
kept_after_copy(stored, data) == stored

-----------------------------------------------------------------------------
(* GET /medicines/{medicine_id} *)

get_medicine(meds, medicine_id) ==
    LET i == FindActive(meds, medicine_id) IN
    IF i = 0
    THEN Answer("get_medicine", medicine_id, <<>>,
                Rethrown(500, "Blockchain query failed", NotFound404), <<>>)
    ELSE Answer("get_medicine", medicine_id, <<>>, Ok200, <<WithNames(meds[i])>>)

GetMedicine(medicine_id) ==
    /\ steps < MaxSteps
    /\ last' = get_medicine(medicines, medicine_id)
    /\ LET i == FindActive(medicines, medicine_id) IN
       medicines' = IF i = 0 THEN medicines
                    ELSE [medicines EXCEPT ![i] = kept_after_copy(@, WithNames(@))]
    /\ steps' = steps + 1
    /\ UNCHANGED svcVars
    /\ UNCHANGED <<temperatureData, locationData, stagesData, now, sunk>>

(* GET /roles/{address} *)

roles(address) ==
    CASE address = MANUFACTURER_ADDR -> "MANUFACTURER"
      [] address = DISTRIBUTOR_ADDR -> "DISTRIBUTOR"
      [] address = PHARMACY_ADDR -> "PHARMACY"
      [] address = PATIENT1_ADDR -> "PATIENT"
      [] address = PATIENT2_ADDR -> "PATIENT"
      [] OTHER -> NoValue

get_user_role(address) ==
    Answer("get_user_role", 0, [address |-> address], Ok200,
           <<[address |-> address, role |-> DictGet(roles(address), "NONE")]>>)

GetUserRole(address) ==
    /\ steps < MaxSteps
    /\ last' = get_user_role(address)
    /\ steps' = steps + 1
    /\ UNCHANGED svcVars
    /\ UNCHANGED <<store, now, sunk>>

(* GET /medicines and GET /medicines/batch/{batch_number} *)

\* the positions of the list the comprehension's condition keeps
ActiveAt(meds) == {i \in 1..Len(meds) : meds[i].isActive}

InBatchAt(meds, batch_number) ==
    {i \in 1..Len(meds) : meds[i].batchNumber = batch_number /\ meds[i].isActive}

RECURSIVE Listed(_, _)
\* the loop over the kept medicines, in list order: copy, name, append
Listed(meds, at) ==
    IF meds = <<>> THEN <<>>
    ELSE LET n == Len(meds)
             front == Listed(SubSeq(meds, 1, n - 1), at)
         IN IF n \in at THEN Append(front, WithNames(meds[n])) ELSE front

\* the stored list after the loop that copies each listed medicine and names it
AfterListing(meds, at) ==
    [i \in 1..Len(meds) |->
        IF i \in at THEN kept_after_copy(meds[i], WithNames(meds[i])) ELSE meds[i]]

get_medicines(meds) ==
    Answer("get_medicines", 0, <<>>, Ok200, Listed(meds, ActiveAt(meds)))

GetMedicines ==
    /\ steps < MaxSteps
    /\ last' = get_medicines(medicines)
    /\ medicines' = AfterListing(medicines, ActiveAt(medicines))
    /\ steps' = steps + 1
    /\ UNCHANGED svcVars
    /\ UNCHANGED <<temperatureData, locationData, stagesData, now, sunk>>

get_medicines_by_batch(meds, batch_number) ==
    Answer("get_medicines_by_batch", 0, [batch_number |-> batch_number], Ok200,
           <<[batchNumber |-> batch_number,
              medicines |-> Listed(meds, InBatchAt(meds, batch_number))]>>)

GetMedicinesByBatch(batch_number) ==
    /\ steps < MaxSteps
    /\ last' = get_medicines_by_batch(medicines, batch_number)
    /\ medicines' = AfterListing(medicines, InBatchAt(medicines, batch_number))
    /\ steps' = steps + 1
    /\ UNCHANGED svcVars
    /\ UNCHANGED <<temperatureData, locationData, stagesData, now, sunk>>

(* GET /medicines/{medicine_id}/temperature-history and /location-history *)

\* the events stored for an id, none when the dict has no such key
Stored(d, id) == IF id \in DOMAIN d THEN d[id] ELSE <<>>

\* [d[key] for d in data]
Column(data, key) == [i \in 1..Len(data) |-> data[i][key]]

get_temperature_history(tdata, medicine_id) ==
    IF medicine_id \notin DOMAIN tdata
    THEN Answer("get_temperature_history", medicine_id, <<>>, Ok200,
                <<[temperatures |-> <<>>, timestamps |-> <<>>, transactionHashes |-> <<>>]>>)
    ELSE LET data == tdata[medicine_id] IN
         Answer("get_temperature_history", medicine_id, <<>>, Ok200,
                <<[temperatures |-> Column(data, "temperature"),
                   timestamps |-> Column(data, "timestamp"),
                   transactionHashes |-> Column(data, "txHash")]>>)

GetTemperatureHistory(medicine_id) ==
    /\ steps < MaxSteps
    /\ last' = get_temperature_history(temperatureData, medicine_id)
    /\ steps' = steps + 1
    /\ UNCHANGED svcVars
    /\ UNCHANGED <<store, now, sunk>>

\* timestamps with an entry left out when it equals the one before it
DistinctTimes(data) ==
    LET keep == SelectSeq([i \in 1..Len(data) |-> i],
                          LAMBDA i : i = 1 \/ data[i].timestamp # data[i - 1].timestamp)
    IN [k \in 1..Len(keep) |-> data[keep[k]].timestamp]

\* a location history that reports each timestamp once
get_location_history_distinct_times(ldata, medicine_id) ==
    LET data == Stored(ldata, medicine_id) IN
    Answer("get_location_history", medicine_id, <<>>, Ok200,
           <<[locations |-> Column(data, "location"),
              timestamps |-> DistinctTimes(data),
              transactionHashes |-> Column(data, "txHash")]>>)

get_location_history(ldata, medicine_id) ==
    IF medicine_id \notin DOMAIN ldata
    THEN Answer("get_location_history", medicine_id, <<>>, Ok200,
                <<[locations |-> <<>>, timestamps |-> <<>>, transactionHashes |-> <<>>]>>)
    ELSE LET data == ldata[medicine_id] IN
         Answer("get_location_history", medicine_id, <<>>, Ok200,
                <<[locations |-> Column(data, "location"),
                   timestamps |-> Column(data, "timestamp"),
                   transactionHashes |-> Column(data, "txHash")]>>)

GetLocationHistory(medicine_id) ==
    /\ steps < MaxSteps
    /\ last' = get_location_history(locationData, medicine_id)
    /\ steps' = steps + 1
    /\ UNCHANGED svcVars
    /\ UNCHANGED <<store, now, sunk>>

(* GET /medicines/{medicine_id}/stages *)

\* one pass of the loop over the stored stages: the copy of the stage with the
\* owner's name, the recipient's name and the formatted stage
stage_with_names(stage) ==
    LET recipient_name == OrElse(stage.recipientName,
                                 OrElse(stage.pharmacyName,
                                        OrElse(stage.distributorName, stage.patientName)))
    IN [f \in DOMAIN stage \cup {"ownerName", "stageFormatted"} |->
          CASE f = "ownerName" -> DictGet(OWNER_NAMES(stage.owner), "Unknown")
            [] f = "stageFormatted" -> format_status_with_recipient(stage.stage, stage.owner, recipient_name)
            [] f = "recipientName" ->
                  IF OrElse(recipient_name, NoValue) # NoValue THEN recipient_name ELSE stage.recipientName
            [] OTHER -> stage[f]]

get_supply_chain_stages(sdata, medicine_id) ==
    IF medicine_id \notin DOMAIN sdata
    THEN Answer("get_supply_chain_stages", medicine_id, <<>>, Ok200, <<[stages |-> <<>>]>>)
    ELSE LET stages == sdata[medicine_id] IN
         Answer("get_supply_chain_stages", medicine_id, <<>>, Ok200,
                <<[stages |-> [i \in 1..Len(stages) |-> stage_with_names(stages[i])]]>>)

GetSupplyChainStages(medicine_id) ==
    /\ steps < MaxSteps
    /\ last' = get_supply_chain_stages(stagesData, medicine_id)
    /\ stagesData' =
          IF medicine_id \notin DOMAIN stagesData THEN stagesData
          ELSE [stagesData EXCEPT ![medicine_id] =
                   [i \in 1..Len(@) |-> kept_after_copy(@[i], stage_with_names(@[i]))]]
    /\ steps' = steps + 1
    /\ UNCHANGED svcVars
    /\ UNCHANGED <<medicines, temperatureData, locationData, now, sunk>>

-----------------------------------------------------------------------------
(* POST /medicines *)

\* an id taken from the length of the list, zero-based
new_id_from_length(meds) == Len(meds)

new_id(meds) ==
    IF meds = <<>> THEN 1 ELSE Max({meds[i].id : i \in 1..Len(meds)}) + 1

new_medicine(meds, req, current_time) ==
    [id |-> new_id(meds), name |-> req.name, batchNumber |-> req.batchNumber,
     manufactureDate |-> current_time, expiryDate |-> req.expiryDate,
     manufacturer |-> MANUFACTURER_ADDR, currentOwner |-> MANUFACTURER_ADDR,
     status |-> "MANUFACTURED", temperatureThreshold |-> req.temperatureThreshold,
     temperatureSensitive |-> req.temperatureSensitive, isActive |-> TRUE,
     blockchainTxHash |-> Fmt("0x", 40, new_id(meds), NoValue),
     blockNumber |-> 1000 + new_id(meds), gasUsed |-> 150000,
     currentOwnerName |-> DictGet(OWNER_NAMES(MANUFACTURER_ADDR), "Unknown"),
     statusFormatted |-> format_status_with_recipient("MANUFACTURED", MANUFACTURER_ADDR, NoValue)]

CreateMedicine(req) ==
    /\ steps < MaxSteps
    /\ steps' = steps + 1
    /\ UNCHANGED svcVars
    /\ IF FromTimestampRaises(req.expiryDate)
       THEN /\ last' = Answer("create_medicine", 0, req,
                              [code |-> 400, detail |-> <<"Blockchain transaction failed", 0, <<"year is out of range">> >>],
                              <<>>)
            /\ UNCHANGED store
       ELSE LET m == new_medicine(medicines, req, now) IN
            /\ medicines' = Append(medicines, m)
            /\ stagesData' = DictPut(stagesData, m.id,
                    << Stage("MANUFACTURED", "Manufacturing Plant A", MANUFACTURER_ADDR, now,
                             Fmt("0x", 40, m.id, NoValue), NoValue, NoValue, NoValue, NoValue) >>)
            /\ locationData' = DictPut(locationData, m.id,
                    << Loc("Manufacturing Plant A", now, Fmt("0xloc", 5, m.id, NoValue)) >>)
            /\ UNCHANGED temperatureData
            /\ last' = Answer("create_medicine", m.id, req, Ok200, <<m>>)
    /\ UNCHANGED <<now, sunk>>

-----------------------------------------------------------------------------
(* POST /medicines/{medicine_id}/transfer *)

\* a write that answers success for an id it did not find
WriteNotFound_accepts(op, medicine_id, req) ==
    Answer(op, medicine_id, req, Ok200, <<[success |-> TRUE]>>)

\* an HTTPException(404) raised inside the handler's try is caught by its own
\* except Exception and answered as 400
WriteNotFound(op, medicine_id, req) ==
    Answer(op, medicine_id, req, Rethrown(400, "Blockchain transaction failed", NotFound404), <<>>)

\* a transfer that forgets to hand the medicine over
transferred_keeps_owner(m, medicine_id, transfer) ==
    [m EXCEPT !.status = transfer.newStatus,
              !.statusFormatted = format_status_with_recipient(transfer.newStatus, transfer.toAddress,
                                                               transfer.recipientName),
              !.blockchainTxHash = Fmt("0xtransfer", 40, medicine_id, NoValue),
              !.blockNumber = 2000 + medicine_id,
              !.gasUsed = 120000]

transferred(m, medicine_id, transfer) ==
    [m EXCEPT !.currentOwner = transfer.toAddress,
              !.status = transfer.newStatus,
              !.currentOwnerName = DictGet(OWNER_NAMES(transfer.toAddress), "Unknown"),
              !.statusFormatted = format_status_with_recipient(transfer.newStatus, transfer.toAddress,
                                                               transfer.recipientName),
              !.blockchainTxHash = Fmt("0xtransfer", 40, medicine_id, NoValue),
              !.blockNumber = 2000 + medicine_id,
              !.gasUsed = 120000]

new_stage(medicine_id, transfer, ts) ==
    Stage(transfer.newStatus, transfer.location, transfer.toAddress, ts,
          Fmt("0xtransfer", 40, medicine_id, NoValue),
          IF OrElse(transfer.recipientName, NoValue) # NoValue THEN transfer.recipientName ELSE NoValue,
          IF transfer.newStatus \in {"SHIPPED_TO_PHARMACY", "RECEIVED_BY_PHARMACY"}
            THEN OrElse(transfer.recipientName, DictGet(PHARMACY_NAMES(transfer.toAddress), "Pharmacy"))
            ELSE NoValue,
          IF transfer.newStatus \in {"SHIPPED_TO_DISTRIBUTOR", "RECEIVED_BY_DISTRIBUTOR"}
            THEN OrElse(transfer.recipientName, DictGet(DISTRIBUTOR_NAMES(transfer.toAddress), "Distributor"))
            ELSE NoValue,
          IF transfer.newStatus = "SOLD_TO_PATIENT"
            THEN OrElse(transfer.recipientName, DictGet(PATIENT_NAMES(transfer.toAddress), "Patient"))
            ELSE NoValue)

TransferMedicine(medicine_id, transfer) ==
    /\ steps < MaxSteps
    /\ steps' = steps + 1
    /\ UNCHANGED svcVars
    /\ LET i == Find(medicines, medicine_id) IN
       IF i = 0
       THEN /\ last' = WriteNotFound("transfer_medicine", medicine_id, transfer)
            /\ UNCHANGED store
       ELSE LET m == transferred(medicines[i], medicine_id, transfer)
                n == IF medicine_id \in DOMAIN locationData THEN Len(locationData[medicine_id]) ELSE 0
            IN
            /\ medicines' = [medicines EXCEPT ![i] = m]
            /\ stagesData' = DictAppend(stagesData, medicine_id, new_stage(medicine_id, transfer, now))
            /\ locationData' = DictAppend(locationData, medicine_id,
                                          Loc(transfer.location, now, Fmt("0xloc", 5, medicine_id, n)))
            /\ UNCHANGED temperatureData
            /\ last' = Answer("transfer_medicine", medicine_id, transfer, Ok200,
                              <<[success |-> TRUE, transaction_hash |-> m.blockchainTxHash,
                                 block_number |-> m.blockNumber, gas_used |-> m.gasUsed]>>)
    /\ UNCHANGED <<now, sunk>>

(* POST /medicines/{medicine_id}/temperature *)

\* a check that takes every medicine for temperature sensitive
temperature_sensitive_any(medicine) == TRUE

\* medicine["temperatureSensitive"]
temperature_sensitive(medicine) == medicine.temperatureSensitive

UpdateTemperature(medicine_id, temp_update) ==
    /\ steps < MaxSteps
    /\ steps' = steps + 1
    /\ UNCHANGED svcVars
    /\ LET i == Find(medicines, medicine_id) IN
       IF i = 0
       THEN /\ last' = WriteNotFound("update_temperature", medicine_id, temp_update)
            /\ UNCHANGED store
       ELSE IF ~temperature_sensitive(medicines[i])
       THEN /\ last' = Answer("update_temperature", medicine_id, temp_update,
                              Rethrown(400, "Blockchain transaction failed",
                                       [code |-> 400, detail |-> <<"Medicine is not temperature sensitive">>]),
                              <<>>)
            /\ UNCHANGED store
       ELSE LET new_reading == Reading(temp_update.temperature, now, Fmt("0xtemp", 40, medicine_id, NoValue)) IN
            /\ temperatureData' = DictAppend(temperatureData, medicine_id, new_reading)
            /\ UNCHANGED <<medicines, locationData, stagesData>>
            /\ last' = Answer("update_temperature", medicine_id, temp_update, Ok200,
                              <<[success |-> TRUE, transaction_hash |-> new_reading.txHash]>>)
    /\ UNCHANGED <<now, sunk>>

(* POST /medicines/{medicine_id}/location *)

UpdateLocation(medicine_id, location_update) ==
    /\ steps < MaxSteps
    /\ steps' = steps + 1
    /\ UNCHANGED svcVars
    /\ LET i == Find(medicines, medicine_id) IN
       IF i = 0
       THEN /\ last' = WriteNotFound("update_location", medicine_id, location_update)
            /\ UNCHANGED store
       ELSE LET new_location == Loc(location_update.location, now, Fmt("0xloc", 40, medicine_id, NoValue)) IN
            /\ locationData' = DictAppend(locationData, medicine_id, new_location)
            /\ UNCHANGED <<medicines, temperatureData, stagesData>>
            /\ last' = Answer("update_location", medicine_id, location_update, Ok200,
                              <<[success |-> TRUE, transaction_hash |-> new_location.txHash]>>)
    /\ UNCHANGED <<now, sunk>>

(* POST /medicines/{medicine_id}/expire *)

expired(m, medicine_id) ==
    [m EXCEPT !.status = "EXPIRED",
              !.blockchainTxHash = Fmt("0xexpire", 40, medicine_id, NoValue),
              !.blockNumber = 3000 + medicine_id,
              !.gasUsed = 80000]

MarkMedicineExpired(medicine_id) ==
    /\ steps < MaxSteps
    /\ steps' = steps + 1
    /\ UNCHANGED svcVars
    /\ LET i == Find(medicines, medicine_id) IN
       IF i = 0
       THEN /\ last' = WriteNotFound("mark_medicine_expired", medicine_id, <<>>)
            /\ UNCHANGED <<store, sunk>>
       ELSE LET m == expired(medicines[i], medicine_id) IN
            /\ medicines' = [medicines EXCEPT ![i] = m]
            /\ UNCHANGED <<temperatureData, locationData, stagesData>>
            /\ sunk' = sunk \cup {medicine_id}
            /\ last' = Answer("mark_medicine_expired", medicine_id, <<>>, Ok200,
                              <<[success |-> TRUE, transaction_hash |-> m.blockchainTxHash]>>)
    /\ UNCHANGED now

(* POST /medicines/{medicine_id}/recall *)

recalled(m, medicine_id) ==
    [m EXCEPT !.status = "RECALLED",
              !.blockchainTxHash = Fmt("0xrecall", 40, medicine_id, NoValue),
              !.blockNumber = 4000 + medicine_id,
              !.gasUsed = 100000]

RecallMedicine(medicine_id, reason) ==
    /\ steps < MaxSteps
    /\ steps' = steps + 1
    /\ UNCHANGED svcVars
    /\ LET i == Find(medicines, medicine_id) IN
       IF i = 0
       THEN /\ last' = WriteNotFound("recall_medicine", medicine_id, [reason |-> reason])
            /\ UNCHANGED <<store, sunk>>
       ELSE LET m == recalled(medicines[i], medicine_id) IN
            /\ medicines' = [medicines EXCEPT ![i] = m]
            /\ UNCHANGED <<temperatureData, locationData, stagesData>>
            /\ sunk' = sunk \cup {medicine_id}
            /\ last' = Answer("recall_medicine", medicine_id, [reason |-> reason], Ok200,
                              <<[success |-> TRUE, transaction_hash |-> m.blockchainTxHash,
                                 reason |-> reason]>>)
    /\ UNCHANGED now

-----------------------------------------------------------------------------
(* The clock moves on between two requests *)

Tick ==
    /\ steps < MaxSteps
    /\ steps' = steps + 1
    /\ UNCHANGED svcVars
    /\ now' = now + 1
    /\ UNCHANGED <<store, last, sunk>>

-----------------------------------------------------------------------------
(* backend/blockchain_service.py: Python values that cross the contract boundary *)

\* a Python value together with its type, where the type decides what the code does
PyInt(n) == [t |-> "int", v |-> n]
PyStr(x) == [t |-> "str", v |-> x]

\* EnumClass(value): the member whose value is `value`, ValueError when there is none.
\* MedicineStatus and Role are (str, Enum) classes whose values are their names.
EnumCall(members, value) ==
    IF value.t = "str" /\ value.v \in members
    THEN [raises |-> FALSE, member |-> value.v]
    ELSE [raises |-> TRUE, member |-> NoValue]

\* getattr(MedicineStatus, new_status).value
StatusArgument(new_status) == PyStr(new_status)

(* The deployed contracts, as the specification describes them: statuses and roles
   are integer codes in declaration order, ids are 1..count *)

StatusCode(name) ==
    CASE name = "MANUFACTURED" -> 0
      [] name = "SHIPPED_TO_DISTRIBUTOR" -> 1
      [] name = "RECEIVED_BY_DISTRIBUTOR" -> 2
      [] name = "SHIPPED_TO_PHARMACY" -> 3
      [] name = "RECEIVED_BY_PHARMACY" -> 4
      [] name = "SOLD_TO_PATIENT" -> 5
      [] name = "EXPIRED" -> 6
      [] name = "RECALLED" -> 7

StatusName(code) == CHOOSE name \in MedicineStatus : StatusCode(name) = code

RoleCode(name) ==
    CASE name = "NONE" -> 0
      [] name = "MANUFACTURER" -> 1
      [] name = "DISTRIBUTOR" -> 2
      [] name = "PHARMACY" -> 3
      [] name = "PATIENT" -> 4
      [] name = "ADMIN" -> 5

RoleName(code) == CHOOSE name \in Role : RoleCode(name) = code

\* the access-control registry: the role code held for each address (one address per code)
Registry(address) ==
    CASE address = MANUFACTURER_ADDR -> RoleCode("MANUFACTURER")
      [] address = DISTRIBUTOR_ADDR -> RoleCode("DISTRIBUTOR")
      [] address = PHARMACY_ADDR -> RoleCode("PHARMACY")
      [] address = PATIENT1_ADDR -> RoleCode("PATIENT")
      [] address = PATIENT2_ADDR -> RoleCode("ADMIN")
      [] OTHER -> RoleCode("NONE")

\* the record getMedicine(id) returns: positions 0..15, 10..14 not read by the client
ChainMedicine(id, name, batch, mfg, exp, manufacturer, owner, code, threshold, sensitive, active) ==
    <<id, name, batch, mfg, exp, manufacturer, owner, code, threshold, sensitive,
      "p10", "p11", "p12", "p13", "p14", active>>

\* the empty record a contract returns for an id it does not hold
SentinelMedicine == ChainMedicine(0, "", "", 0, 0, "0x0", "0x0", 0, 0, FALSE, FALSE)

ChainIds == 1..Len(chainMeds)

SinkCodes == {StatusCode("EXPIRED"), StatusCode("RECALLED")}

ChainStatus(id) == chainMeds[id][8]

\* what the contract can answer to the call getMedicine(id)
GetMedicineReplies(meds, id) ==
    IF id \in 1..Len(meds)
    THEN {[kind |-> "tuple", data |-> <<meds[id]>>]}
    ELSE {[kind |-> "revert", data |-> <<>>], [kind |-> "tuple", data |-> <<SentinelMedicine>>]}

NoHistory == [values |-> <<>>, timestamps |-> <<>>]

\* whether the contract has to reject a transaction
MustReject(fn, id) ==
    CASE fn = "manufactureMedicine" -> FALSE
      [] fn \in {"transferMedicine", "markAsExpired", "recallMedicine"} ->
            id \notin ChainIds \/ ChainStatus(id) \in SinkCodes
      [] OTHER -> id \notin ChainIds

\* the contract's state after it has accepted a transaction from `sender`
AppliedMeds(fn, id, a, sender) ==
    CASE fn = "manufactureMedicine" ->
            Append(chainMeds, ChainMedicine(Len(chainMeds) + 1, a.name, a.batchNumber, now, a.expiryDate,
                                            sender, sender, StatusCode("MANUFACTURED"),
                                            a.temperatureThreshold, a.temperatureSensitive, TRUE))
      [] fn = "transferMedicine" ->
            [chainMeds EXCEPT ![id] = [@ EXCEPT ![7] = a.toAddress, ![8] = a.statusCode]]
      [] fn = "markAsExpired" -> [chainMeds EXCEPT ![id] = [@ EXCEPT ![8] = StatusCode("EXPIRED")]]
      [] fn = "recallMedicine" -> [chainMeds EXCEPT ![id] = [@ EXCEPT ![8] = StatusCode("RECALLED")]]
      [] OTHER -> chainMeds

Pushed(h, v) == [values |-> Append(h.values, v), timestamps |-> Append(h.timestamps, now)]

AppliedTemps(fn, id, a) ==
    CASE fn = "manufactureMedicine" -> Append(chainTemps, NoHistory)
      [] fn = "updateTemperature" -> [chainTemps EXCEPT ![id] = Pushed(@, a.temperature)]
      [] OTHER -> chainTemps

AppliedLocs(fn, id, a) ==
    CASE fn = "manufactureMedicine" -> Append(chainLocs, NoHistory)
      [] fn \in {"updateLocation", "transferMedicine"} -> [chainLocs EXCEPT ![id] = Pushed(@, a.location)]
      [] OTHER -> chainLocs

-----------------------------------------------------------------------------
(* BlockchainService: construction *)

\* setup_web3, given the descriptor that was loaded and whether the node answers:
\* the values of <<w3, contracts, connected>> it leaves
\* and whether it returned rather than raised
setup_web3(file, up) ==
    IF ~up THEN <<"Web3", NoValue, FALSE, TRUE>>                    \* "Failed to connect", return
    ELSE IF file = "incomplete" THEN <<"Web3", NoValue, FALSE, TRUE>>  \* KeyError, caught
    ELSE <<"Web3", "Contract", TRUE, TRUE>>

\* __init__ and load_deployment_info: <<deployment_info, w3, contracts, connected>>
\* and whether the constructor returned rather than raised
load_deployment_info(file, up) ==
    IF file = "missing"
    THEN <<NoValue, NoValue, NoValue, FALSE, TRUE>>            \* FileNotFoundError, caught
    ELSE <<"info">> \o setup_web3(file, up)

(* BlockchainService: how an operation ends *)

Raised(op, id, args, error, rpcs) ==
    [op |-> op, id |-> id, args |-> args, outcome |-> "raise", kind |-> "exception",
     value |-> <<>>, error |-> error, rpcs |-> rpcs, reply |-> "none", raw |-> <<>>, receipt |-> -1,
     events |-> -1]

Returned(op, id, args, kind, value, rpcs, reply, receipt) ==
    [op |-> op, id |-> id, args |-> args, outcome |-> "return", kind |-> kind,
     value |-> value, error |-> "", rpcs |-> rpcs, reply |-> reply, raw |-> <<>>, receipt |-> receipt,
     events |-> -1]

NoResult ==
    [op |-> "none", id |-> 0, args |-> <<>>, outcome |-> "none", kind |-> "none",
     value |-> <<>>, error |-> "", rpcs |-> <<>>, reply |-> "none", raw |-> <<>>, receipt |-> -1,
     events |-> -1]

\* a liveness check that asks the node only, whatever setup_web3 concluded
is_connected_probe_only == w3 # NoValue /\ nodeUp

\* is_connected(): self.connected and self.w3 is not None and self.w3.is_connected()
is_connected == connected /\ w3 # NoValue /\ nodeUp

\* the requests is_connected() sends to the node: `and` stops at the first false operand
ProbeRpcs == IF connected /\ w3 # NoValue THEN <<"web3.is_connected">> ELSE <<>>

NotConnected(op, id, args) == Raised(op, id, args, "Not connected to blockchain", ProbeRpcs)

\* a use of a contract handle that is still None
NoHandle(op, id, args) ==
    Raised(op, id, args, "AttributeError: 'NoneType' object has no attribute 'functions'", ProbeRpcs)

(* get_account *)

svc_get_account(reachable) ==
    IF ~is_connected THEN NotConnected("get_account", 0, <<>>)
    ELSE IF ~reachable THEN Raised("get_account", 0, <<>>, "ConnectionError", ProbeRpcs \o <<"eth_accounts">>)
    ELSE Returned("get_account", 0, <<>>, "str", <<MANUFACTURER_ADDR>>, ProbeRpcs \o <<"eth_accounts">>,
                  "accounts", -1)

-----------------------------------------------------------------------------
(* get_medicine *)

\* lines 106-118 on the tuple the call returned: the dict, or the exception raised
DecodeMedicine(medicine_data) ==
    LET st == EnumCall(MedicineStatus, PyInt(medicine_data[8])) IN
    IF st.raises
    THEN [raises |-> TRUE, dict |-> <<>>]
    ELSE [raises |-> FALSE,
          dict |-> <<[id |-> medicine_data[1], name |-> medicine_data[2],
                      batchNumber |-> medicine_data[3], manufactureDate |-> medicine_data[4],
                      expiryDate |-> medicine_data[5], manufacturer |-> medicine_data[6],
                      currentOwner |-> medicine_data[7], status |-> st.member,
                      temperatureThreshold |-> medicine_data[9],
                      temperatureSensitive |-> medicine_data[10],
                      isActive |-> medicine_data[16]]>>]

\* a get_medicine whose except clause lets a reverted call through
TryGetMedicine_reraises(op, id, reply, rpcs) ==
    IF reply.kind = "revert"
    THEN Raised(op, id, <<>>, "ContractLogicError", rpcs \o <<"call getMedicine">>)
    ELSE Returned(op, id, <<>>, "None", <<>>, rpcs \o <<"call getMedicine">>, reply.kind, -1)

\* the try / except of get_medicine around the call and the decoding: whatever is
\* raised inside is printed and None is returned
TryGetMedicine(op, id, reply, rpcs) ==
    IF contracts = NoValue THEN Returned(op, id, <<>>, "None", <<>>, rpcs, "none", -1)
    ELSE IF reply.kind # "tuple"
    THEN Returned(op, id, <<>>, "None", <<>>, rpcs \o <<"call getMedicine">>, reply.kind, -1)
    ELSE LET d == DecodeMedicine(reply.data[1]) IN
         IF d.raises
         THEN [Returned(op, id, <<>>, "None", <<>>, rpcs \o <<"call getMedicine">>, reply.kind, -1)
                  EXCEPT !.raw = reply.data]
         ELSE [Returned(op, id, <<>>, "dict", d.dict, rpcs \o <<"call getMedicine">>, reply.kind, -1)
                  EXCEPT !.raw = reply.data]

svc_get_medicine(op, medicine_id, reply, rpcs) ==
    IF ~is_connected THEN NotConnected(op, medicine_id, <<>>)
    ELSE TryGetMedicine(op, medicine_id, reply, rpcs \o ProbeRpcs)

\* the replies the node can give to one call: the contract's, or none at all
\* when the connection drops after the liveness probe
CallReplies(id) == GetMedicineReplies(chainMeds, id) \cup {[kind |-> "unreachable", data |-> <<>>]}

SvcFrame == built /\ UNCHANGED <<httpVars, now, descriptor, built, nodeUp, client>>

SvcGetMedicine(medicine_id) ==
    /\ steps < MaxCalls
    /\ steps' = steps + 1
    /\ \E reply \in CallReplies(medicine_id) :
          result' = svc_get_medicine("get_medicine", medicine_id, reply, <<>>)
    /\ UNCHANGED <<chain, sent>>
    /\ SvcFrame

SvcGetAccount ==
    /\ steps < MaxCalls
    /\ steps' = steps + 1
    /\ \E reachable \in BOOLEAN : result' = svc_get_account(reachable)
    /\ UNCHANGED <<chain, sent>>
    /\ SvcFrame

(* is_connected, called by a user of the service *)

svc_is_connected == Returned("is_connected", 0, <<>>, "bool", <<is_connected>>, ProbeRpcs, "none", -1)

SvcIsConnected ==
    /\ steps < MaxCalls
    /\ steps' = steps + 1
    /\ result' = svc_is_connected
    /\ UNCHANGED <<chain, sent>>
    /\ SvcFrame

(* get_user_role *)

svc_get_user_role(address, reachable) ==
    IF ~is_connected THEN NotConnected("get_user_role", 0, [address |-> address])
    ELSE IF contracts = NoValue THEN NoHandle("get_user_role", 0, [address |-> address])
    ELSE IF ~reachable
    THEN Raised("get_user_role", 0, [address |-> address], "ConnectionError",
                ProbeRpcs \o <<"call getRole">>)
    ELSE LET role == EnumCall(Role, PyInt(Registry(address))) IN
         IF role.raises
         THEN [Raised("get_user_role", 0, [address |-> address], "ValueError",
                      ProbeRpcs \o <<"call getRole">>) EXCEPT !.reply = "code"]
         ELSE Returned("get_user_role", 0, [address |-> address], "str", <<role.member>>,
                       ProbeRpcs \o <<"call getRole">>, "code", -1)

SvcGetUserRole(address) ==
    /\ steps < MaxCalls
    /\ steps' = steps + 1
    /\ \E reachable \in BOOLEAN : result' = svc_get_user_role(address, reachable)
    /\ UNCHANGED <<chain, sent>>
    /\ SvcFrame

(* get_contract_info *)

svc_get_contract_info ==
    IF deployment_info = NoValue
    THEN Raised("get_contract_info", 0, <<>>, "Deployment info not available", <<>>)
    ELSE IF descriptor = "incomplete"
    THEN Raised("get_contract_info", 0, <<>>, "KeyError", <<>>)
    ELSE Returned("get_contract_info", 0, <<>>, "dict", <<deployment_info>>, <<>>, "none", -1)

SvcGetContractInfo ==
    /\ steps < MaxCalls
    /\ steps' = steps + 1
    /\ result' = svc_get_contract_info
    /\ UNCHANGED <<chain, sent>>
    /\ SvcFrame

-----------------------------------------------------------------------------
(* get_all_medicines, get_medicines_by_batch and the two histories *)

\* the loop  for i in ids: medicine = await self.get_medicine(i); if medicine: append
FetchEach(ids) ==
    LET got == [k \in 1..Len(ids) |->
                  TryGetMedicine("get_medicine", ids[k], [kind |-> "tuple", data |-> <<chainMeds[ids[k]]>>], <<>>)]
        kept == SelectSeq(got, LAMBDA r : r.kind = "dict")
    IN [k \in 1..Len(kept) |-> kept[k].value[1]]

FetchRpcs(ids) == [k \in 1..(2 * Len(ids)) |-> IF k % 2 = 1 THEN "web3.is_connected" ELSE "call getMedicine"]

svc_get_all_medicines(reachable) ==
    IF ~is_connected THEN NotConnected("get_all_medicines", 0, <<>>)
    ELSE IF contracts = NoValue THEN NoHandle("get_all_medicines", 0, <<>>)
    ELSE IF ~reachable
    THEN Raised("get_all_medicines", 0, <<>>, "ConnectionError", ProbeRpcs \o <<"call getTotalMedicines">>)
    ELSE LET ids == [i \in 1..Len(chainMeds) |-> i] IN
         Returned("get_all_medicines", Len(chainMeds), <<>>, "list", FetchEach(ids),
                  ProbeRpcs \o <<"call getTotalMedicines">> \o FetchRpcs(ids), "count", -1)

SvcGetAllMedicines ==
    /\ steps < MaxCalls
    /\ steps' = steps + 1
    /\ \E reachable \in BOOLEAN : result' = svc_get_all_medicines(reachable)
    /\ UNCHANGED <<chain, sent>>
    /\ SvcFrame

\* the contract's batch index: the ids whose batch number is batch_number, in id order
BatchIndex(batch_number) ==
    SelectSeq([i \in 1..Len(chainMeds) |-> i], LAMBDA i : chainMeds[i][3] = batch_number)

svc_get_medicines_by_batch(batch_number, reachable) ==
    IF ~is_connected THEN NotConnected("get_medicines_by_batch", 0, [batch_number |-> batch_number])
    ELSE IF contracts = NoValue THEN NoHandle("get_medicines_by_batch", 0, [batch_number |-> batch_number])
    ELSE IF ~reachable
    THEN Raised("get_medicines_by_batch", 0, [batch_number |-> batch_number], "ConnectionError",
                ProbeRpcs \o <<"call getMedicinesByBatch">>)
    ELSE LET ids == BatchIndex(batch_number) IN
         Returned("get_medicines_by_batch", Len(ids), [batch_number |-> batch_number], "list", FetchEach(ids),
                  ProbeRpcs \o <<"call getMedicinesByBatch">> \o FetchRpcs(ids), "ids", -1)

SvcGetMedicinesByBatch(batch_number) ==
    /\ steps < MaxCalls
    /\ steps' = steps + 1
    /\ \E reachable \in BOOLEAN : result' = svc_get_medicines_by_batch(batch_number, reachable)
    /\ UNCHANGED <<chain, sent>>
    /\ SvcFrame

\* get_temperature_history / get_location_history: the pair the call returns, unpacked
\* and returned; a call the contract reverts raises
svc_get_history(op, call, hist, medicine_id, reverts) ==
    IF ~is_connected THEN NotConnected(op, medicine_id, <<>>)
    ELSE IF contracts = NoValue THEN NoHandle(op, medicine_id, <<>>)
    ELSE IF medicine_id \notin ChainIds /\ reverts
    THEN [Raised(op, medicine_id, <<>>, "ContractLogicError", ProbeRpcs \o <<call>>) EXCEPT !.reply = "revert"]
    ELSE LET h == IF medicine_id \in ChainIds THEN hist[medicine_id] ELSE NoHistory IN
         Returned(op, medicine_id, <<>>, "tuple", <<h.values, h.timestamps>>, ProbeRpcs \o <<call>>, "pair", -1)

SvcGetTemperatureHistory(medicine_id) ==
    /\ steps < MaxCalls
    /\ steps' = steps + 1
    /\ \E reverts \in BOOLEAN :
          result' = svc_get_history("get_temperature_history", "call getTemperatureHistory",
                                    chainTemps, medicine_id, reverts)
    /\ UNCHANGED <<chain, sent>>
    /\ SvcFrame

SvcGetLocationHistory(medicine_id) ==
    /\ steps < MaxCalls
    /\ steps' = steps + 1
    /\ \E reverts \in BOOLEAN :
          result' = svc_get_history("get_location_history", "call getLocationHistory",
                                    chainLocs, medicine_id, reverts)
    /\ UNCHANGED <<chain, sent>>
    /\ SvcFrame

-----------------------------------------------------------------------------
(* The write operations: build, sign, send, wait for the receipt *)

\* the account the operations sign for: get_account(), the node's first account
SIGNER == MANUFACTURER_ADDR

\* what the node and the contract can make of one transaction of this client:
\*   "dropped"       the node stops answering after the first liveness probe
\*   "send_rejected" the node executes it, it reverts, and eth_sendRawTransaction
\*                   answers with the revert error (a development node's behaviour)
\*   "mined_failed"  it is mined and its receipt reports status 0
\*   "mined_ok"      it is mined and its receipt reports status 1
\*   "pending"       the node takes it into its pool; it is not mined while the
\*                   client waits for the receipt
TxOutcomes(fn, id) ==
    IF MustReject(fn, id)
    THEN {"dropped", "send_rejected", "mined_failed", "pending"}
    ELSE {"dropped", "send_rejected", "mined_failed", "mined_ok", "pending"}

\* the poll at which the receipt of a transaction is there, 0 for none during the wait
MinedAt(outcome) == IF outcome = "pending" THEN {0} ELSE 1..MaxPolls

\* how the node knows a transaction of this client: mined with receipt status 1 or
\* 0, or in the pool
TxStatus(outcome) ==
    CASE outcome = "mined_ok" -> 1
      [] outcome = "pending" -> -1
      [] OTHER -> 0

RECURSIVE poll_receipt(_, _, _)
\* the loop of wait_for_transaction_receipt at its k-th poll: the receipt is there,
\* or the time is over (TimeExhausted), or it sleeps and polls again
poll_receipt(k, at, budget) ==
    IF at # 0 /\ k >= at THEN [timed_out |-> FALSE, polls |-> k]
    ELSE IF k >= budget THEN [timed_out |-> TRUE, polls |-> k]
    ELSE poll_receipt(k + 1, at, budget)

\* a wait that allows itself twice the time
wait_twice_as_long(at) == poll_receipt(1, at, 2 * MaxPolls)

\* self.w3.eth.wait_for_transaction_receipt(tx_hash), with the library's default timeout
wait_for_transaction_receipt(at) == poll_receipt(1, at, MaxPolls)

ReceiptPolls(n) == [k \in 1..n |-> "eth_getTransactionReceipt"]

\* whether the contract function's encoder takes the value for a uint8 parameter
AbiAcceptsUint8(value) == value.t = "int"

\* requests sent up to and including the broadcast
SubmitRpcs ==
    ProbeRpcs \o ProbeRpcs \o <<"eth_accounts", "eth_gasPrice", "eth_getTransactionCount",
                                "eth_sendRawTransaction">>

Tx(fn, id, a, status) == [fn |-> fn, id |-> id, args |-> a, nonce |-> txCount, from |-> SIGNER, status |-> status]

\* lines 155-176 (and the same shape in the other four operations that return the
\* transaction hash): the result of the operation for one outcome of its transaction.
\* valid: whether building the contract call accepted the arguments.
submit(op, fn, id, a, valid, outcome, at) ==
    IF ~is_connected THEN NotConnected(op, id, a)
    ELSE IF outcome = "dropped"
    THEN Raised(op, id, a, "Not connected to blockchain", ProbeRpcs \o ProbeRpcs)   \* get_account
    ELSE IF contracts = NoValue THEN NoHandle(op, id, a)
    ELSE IF ~valid
    THEN Raised(op, id, a, "Web3ValidationError", ProbeRpcs \o ProbeRpcs \o <<"eth_accounts">>)
    ELSE IF outcome = "send_rejected"
    THEN Raised(op, id, a, "ContractLogicError", SubmitRpcs)
    ELSE LET w == wait_for_transaction_receipt(at) IN
         IF w.timed_out
         THEN Raised(op, id, a, "TimeExhausted", SubmitRpcs \o ReceiptPolls(w.polls))
         ELSE Returned(op, id, a, "hash", <<txCount>>, SubmitRpcs \o ReceiptPolls(w.polls),
                       "receipt", TxStatus(outcome))

\* whether the operation got as far as broadcasting its transaction
Broadcast(valid, outcome) ==
    is_connected /\ outcome # "dropped" /\ contracts # NoValue /\ valid

\* the effect of one write operation on the node and the contract
Submitted(fn, id, a, valid, outcome) ==
    IF ~Broadcast(valid, outcome)
    THEN UNCHANGED <<chain, sent>>
    ELSE /\ txCount' = IF outcome = "pending" THEN txCount ELSE txCount + 1
         /\ sent' = Append(sent, Tx(fn, id, a, TxStatus(outcome)))
         /\ IF outcome = "mined_ok"
            THEN /\ chainMeds' = AppliedMeds(fn, id, a, SIGNER)
                 /\ chainTemps' = AppliedTemps(fn, id, a)
                 /\ chainLocs' = AppliedLocs(fn, id, a)
            ELSE UNCHANGED <<chainMeds, chainTemps, chainLocs>>

SvcTransferMedicine(medicine_id, to_address, new_status, location) ==
    /\ steps < MaxCalls
    /\ steps' = steps + 1
    /\ LET status_enum == StatusArgument(new_status)
           a == [toAddress |-> to_address, newStatus |-> new_status, statusCode |-> status_enum.v,
                 location |-> location]
       IN \E outcome \in TxOutcomes("transferMedicine", medicine_id) : \E at \in MinedAt(outcome) :
             /\ result' = submit("transfer_medicine", "transferMedicine", medicine_id, a,
                                 AbiAcceptsUint8(status_enum), outcome, at)
             /\ Submitted("transferMedicine", medicine_id, a, AbiAcceptsUint8(status_enum), outcome)
    /\ SvcFrame

SvcUpdateTemperature(medicine_id, temperature) ==
    /\ steps < MaxCalls
    /\ steps' = steps + 1
    /\ \E outcome \in TxOutcomes("updateTemperature", medicine_id) : \E at \in MinedAt(outcome) :
          /\ result' = submit("update_temperature", "updateTemperature", medicine_id,
                              [temperature |-> temperature], TRUE, outcome, at)
          /\ Submitted("updateTemperature", medicine_id, [temperature |-> temperature], TRUE, outcome)
    /\ SvcFrame

SvcUpdateLocation(medicine_id, location) ==
    /\ steps < MaxCalls
    /\ steps' = steps + 1
    /\ \E outcome \in TxOutcomes("updateLocation", medicine_id) : \E at \in MinedAt(outcome) :
          /\ result' = submit("update_location", "updateLocation", medicine_id,
                              [location |-> location], TRUE, outcome, at)
          /\ Submitted("updateLocation", medicine_id, [location |-> location], TRUE, outcome)
    /\ SvcFrame

SvcMarkAsExpired(medicine_id) ==
    /\ steps < MaxCalls
    /\ steps' = steps + 1
    /\ \E outcome \in TxOutcomes("markAsExpired", medicine_id) : \E at \in MinedAt(outcome) :
          /\ result' = submit("mark_as_expired", "markAsExpired", medicine_id, <<>>, TRUE, outcome, at)
          /\ Submitted("markAsExpired", medicine_id, <<>>, TRUE, outcome)
    /\ SvcFrame

SvcRecallMedicine(medicine_id, reason) ==
    /\ steps < MaxCalls
    /\ steps' = steps + 1
    /\ \E outcome \in TxOutcomes("recallMedicine", medicine_id) : \E at \in MinedAt(outcome) :
          /\ result' = submit("recall_medicine", "recallMedicine", medicine_id,
                              [reason |-> reason], TRUE, outcome, at)
          /\ Submitted("recallMedicine", medicine_id, [reason |-> reason], TRUE, outcome)
    /\ SvcFrame

(* manufacture_medicine *)

\* lines 92-96 once the receipt is there: the id from the MedicineManufactured event
\* of the receipt, then get_medicine(id) on the contract's new state
\* a manufacture that answers with a record put together from its arguments
manufacture_after_receipt_echoes(a, outcome, emits, sofar) ==
    IF ~(outcome = "mined_ok" /\ emits)
    THEN [Raised("manufacture_medicine", 0, a, "IndexError", sofar.rpcs) EXCEPT
            !.reply = "receipt", !.receipt = sofar.receipt, !.events = 0]
    ELSE [Returned("manufacture_medicine", Len(chainMeds) + 1, a, "dict",
                   <<[id |-> Len(chainMeds) + 1, name |-> a.name, batchNumber |-> a.batchNumber,
                      manufactureDate |-> now, expiryDate |-> a.expiryDate,
                      manufacturer |-> SIGNER, currentOwner |-> SIGNER, status |-> "MANUFACTURED",
                      temperatureThreshold |-> a.temperatureThreshold,
                      temperatureSensitive |-> a.temperatureSensitive, isActive |-> TRUE]>>,
                   sofar.rpcs, "receipt", sofar.receipt) EXCEPT !.events = 1]

\* a manufacture that, finding no event, takes the ledger's count for the new id
manufacture_after_receipt_guesses(a, outcome, emits, sofar) ==
    LET meds == IF outcome = "mined_ok" THEN AppliedMeds("manufactureMedicine", 0, a, SIGNER) ELSE chainMeds
        medicine_id == Len(meds)
        got == svc_get_medicine("manufacture_medicine", medicine_id,
                                [kind |-> "tuple", data |-> <<meds[medicine_id]>>],
                                sofar.rpcs \o <<"call getTotalMedicines">>)
    IN [got EXCEPT !.args = a, !.receipt = sofar.receipt,
                   !.events = IF outcome = "mined_ok" /\ emits THEN 1 ELSE 0]

manufacture_after_receipt(a, outcome, emits, sofar) ==
    IF ~(outcome = "mined_ok" /\ emits)
    THEN [Raised("manufacture_medicine", 0, a, "IndexError", sofar.rpcs) EXCEPT
            !.reply = "receipt", !.receipt = sofar.receipt, !.events = 0]
    ELSE LET meds == AppliedMeds("manufactureMedicine", 0, a, SIGNER)
             medicine_id == Len(meds)
             got == svc_get_medicine("manufacture_medicine", medicine_id,
                                     [kind |-> "tuple", data |-> <<meds[medicine_id]>>], sofar.rpcs)
         IN [got EXCEPT !.args = a, !.receipt = sofar.receipt, !.events = 1]

manufacture_medicine(a, outcome, at, emits) ==
    LET sofar == submit("manufacture_medicine", "manufactureMedicine", 0, a, TRUE, outcome, at) IN
    IF sofar.outcome = "raise" THEN sofar ELSE manufacture_after_receipt(a, outcome, emits, sofar)

SvcManufactureMedicine(a) ==
    /\ steps < MaxCalls
    /\ steps' = steps + 1
    /\ \E outcome \in TxOutcomes("manufactureMedicine", 0), emits \in BOOLEAN :
       \E at \in MinedAt(outcome) :
          /\ result' = manufacture_medicine(a, outcome, at, emits)
          /\ Submitted("manufactureMedicine", 0, a, TRUE, outcome)
    /\ SvcFrame

-----------------------------------------------------------------------------
(* The environment of the client *)

\* the node goes down or comes back
NodeFlip ==
    /\ steps < MaxCalls
    /\ steps' = steps + 1
    /\ nodeUp' = ~nodeUp
    /\ UNCHANGED <<httpVars, now, descriptor, built, client, chain, sent, result>>

\* the node mines a transaction of this client that was waiting in its pool: it
\* takes the account's next nonce, and the contract accepts or reverts it
MinePending(k) ==
    /\ steps < MaxCalls
    /\ steps' = steps + 1
    /\ k \in 1..Len(sent)
    /\ sent[k].status = -1
    /\ sent[k].nonce = txCount
    /\ txCount' = txCount + 1
    /\ LET tx == sent[k] IN
       IF MustReject(tx.fn, tx.id)
       THEN /\ sent' = [sent EXCEPT ![k].status = 0]
            /\ UNCHANGED <<chainMeds, chainTemps, chainLocs>>
       ELSE /\ sent' = [sent EXCEPT ![k].status = 1]
            /\ chainMeds' = AppliedMeds(tx.fn, tx.id, tx.args, SIGNER)
            /\ chainTemps' = AppliedTemps(tx.fn, tx.id, tx.args)
            /\ chainLocs' = AppliedLocs(tx.fn, tx.id, tx.args)
    /\ UNCHANGED <<httpVars, now, descriptor, built, nodeUp, client, result>>

\* another signer's transfer, accepted by the contract
ForeignTransfer(id, to, code) ==
    /\ steps < MaxCalls
    /\ steps' = steps + 1
    /\ ~MustReject("transferMedicine", id)
    /\ chainMeds' = AppliedMeds("transferMedicine", id, [toAddress |-> to, statusCode |-> code], to)
    /\ chainLocs' = AppliedLocs("transferMedicine", id, [location |-> "Loading Dock A"])
    /\ UNCHANGED <<httpVars, now, descriptor, built, nodeUp, client, chainTemps, txCount, sent, result>>

-----------------------------------------------------------------------------
(* The ledger client *)

\* the contract as deployed and used before this client starts: one medicine
ChainInit ==
    /\ chainMeds = << ChainMedicine(1, "Insulin", "INS002", -15, 180, MANUFACTURER_ADDR,
                                    MANUFACTURER_ADDR, StatusCode("MANUFACTURED"), 8, TRUE, TRUE) >>
    /\ chainTemps = << [values |-> <<"5C">>, timestamps |-> <<-10>>] >>
    /\ chainLocs = << [values |-> <<"Manufacturing Plant A">>, timestamps |-> <<-15>>] >>
    /\ txCount = 0

\* the state BlockchainService() leaves, for each descriptor file and node state
Constructed ==
    /\ descriptor \in {"missing", "incomplete", "ok"}
    /\ nodeUp \in BOOLEAN
    /\ deployment_info = load_deployment_info(descriptor, nodeUp)[1]
    /\ w3 = load_deployment_info(descriptor, nodeUp)[2]
    /\ contracts = load_deployment_info(descriptor, nodeUp)[3]
    /\ connected = load_deployment_info(descriptor, nodeUp)[4]
    /\ built = load_deployment_info(descriptor, nodeUp)[5]
    /\ sent = <<>>
    /\ result = NoResult

HttpIdle ==
    /\ medicines = BLOCKCHAIN_MEDICINES
    /\ temperatureData = BLOCKCHAIN_TEMPERATURE_DATA
    /\ locationData = BLOCKCHAIN_LOCATION_DATA
    /\ stagesData = BLOCKCHAIN_STAGES_DATA
    /\ now = 0
    /\ last = [op |-> "none", id |-> 0, req |-> <<>>, code |-> 0, detail |-> <<>>, body |-> <<>>]
    /\ sunk = {}
    /\ steps = 0

SvcInit == HttpIdle /\ ChainInit /\ Constructed

SvcIds == {1, 2}

ManufactureArgs ==
    [name : {"Aspirin"}, batchNumber : {"ASP001"}, expiryDate : {365},
     temperatureThreshold : {25}, temperatureSensitive : {FALSE}]

SvcNext ==
    \/ \E id \in SvcIds : SvcGetMedicine(id)
    \/ \E a \in Addresses \cup {PATIENT2_ADDR} : SvcGetUserRole(a)
    \/ SvcGetContractInfo
    \/ SvcGetAccount
    \/ SvcIsConnected
    \/ SvcGetAllMedicines
    \/ \E b \in {"INS002"} : SvcGetMedicinesByBatch(b)
    \/ \E id \in SvcIds : SvcGetTemperatureHistory(id)
    \/ \E id \in SvcIds : SvcGetLocationHistory(id)
    \/ \E id \in SvcIds, s \in MedicineStatus : SvcTransferMedicine(id, DISTRIBUTOR_ADDR, s, "Loading Dock A")
    \/ \E id \in SvcIds : SvcUpdateTemperature(id, "6C")
    \/ \E id \in SvcIds : SvcUpdateLocation(id, "Warehouse B")
    \/ \E id \in SvcIds : SvcMarkAsExpired(id)
    \/ \E id \in SvcIds : SvcRecallMedicine(id, "contaminated")
    \/ \E a \in ManufactureArgs : SvcManufactureMedicine(a)
    \/ NodeFlip
    \/ \E k \in 1..MaxCalls : MinePending(k)
    \/ \E id \in SvcIds, code \in 0..7 : ForeignTransfer(id, DISTRIBUTOR_ADDR, code)

SvcSpec == SvcInit /\ [][SvcNext]_vars

-----------------------------------------------------------------------------
(* The HTTP layer *)

\* main.py as imported: the seeded store; it creates no BlockchainService
Init ==
    /\ HttpIdle
    /\ ChainInit
    /\ descriptor = "missing"
    /\ nodeUp = FALSE
    /\ deployment_info = NoValue
    /\ w3 = NoValue
    /\ contracts = NoValue
    /\ connected = FALSE
    /\ built = FALSE
    /\ sent = <<>>
    /\ result = NoResult

MedicineCreate ==
    [name : {"Aspirin"}, batchNumber : BatchNumbers, expiryDate : ExpiryDates,
     temperatureThreshold : {25}, temperatureSensitive : BOOLEAN]

MedicineTransfer ==
    [toAddress : Addresses, newStatus : MedicineStatus, location : {"Loading Dock A"},
     recipientName : RecipientNames]

Next ==
    \/ \E id \in TargetIds : GetMedicine(id)
    \/ \E a \in Addresses : GetUserRole(a)
    \/ GetMedicines
    \/ \E b \in BatchNumbers : GetMedicinesByBatch(b)
    \/ \E id \in TargetIds : GetTemperatureHistory(id)
    \/ \E id \in TargetIds : GetLocationHistory(id)
    \/ \E id \in TargetIds : GetSupplyChainStages(id)
    \/ \E req \in MedicineCreate : CreateMedicine(req)
    \/ \E id \in TargetIds, t \in MedicineTransfer : TransferMedicine(id, t)
    \/ \E id \in TargetIds : UpdateTemperature(id, [temperature |-> "6C"])
    \/ \E id \in TargetIds : UpdateLocation(id, [location |-> "Warehouse B"])
    \/ \E id \in TargetIds : MarkMedicineExpired(id)
    \/ \E id \in TargetIds : RecallMedicine(id, "contaminated")
    \/ Tick

Spec == Init /\ [][Next]_vars

-----------------------------------------------------------------------------
(* Properties of the HTTP layer, checked under Spec *)

StatusOf(meds, id) == meds[Find(meds, id)].status

\* a step that handled a request (and not a clock tick)
Handled == steps' # steps /\ now' = now

C3_TransferThenGet ==
    [][(Handled /\ last'.op = "transfer_medicine" /\ last'.code = 200) =>
          LET got == get_medicine(medicines', last'.id) IN
          /\ got.code = 200
          /\ Len(got.body) = 1
          /\ got.body[1].id = last'.id
          /\ got.body[1].currentOwner = last'.req.toAddress
          /\ got.body[1].status = last'.req.newStatus]_vars

C3_Witness ==
    /\ last.op = "transfer_medicine" /\ last.code = 200
    /\ last.req.toAddress = UNKNOWN_ADDR /\ last.req.newStatus = "SOLD_TO_PATIENT"
    /\ StatusOf(medicines, last.id) = "SOLD_TO_PATIENT"

Ids(meds) == {meds[i].id : i \in 1..Len(meds)}

\* what makes a stored dict the same medicine: the fields no request rewrites
Identity(m) == <<m.id, m.name, m.batchNumber, m.manufactureDate, m.manufacturer>>

\* C5: no two stored medicines share an id, an id keeps denoting the same medicine,
\* and each successful manufacture assigns one more than the largest id so far.
C5_IdsUniqueSequential ==
    /\ [](\A i, j \in 1..Len(medicines) : medicines[i].id = medicines[j].id => i = j)
    /\ [][/\ Len(medicines') >= Len(medicines)
          /\ \A i \in 1..Len(medicines) : Identity(medicines'[i]) = Identity(medicines[i])
          /\ (Handled /\ last'.op = "create_medicine" /\ last'.code = 200) =>
                /\ Len(medicines') = Len(medicines) + 1
                /\ last'.id = Max(Ids(medicines)) + 1
                /\ medicines'[Len(medicines')].id = last'.id
                /\ last'.body[1].id = last'.id
                /\ last'.id \notin Ids(medicines)]_vars

C5_Witness ==
    /\ Len(medicines) = 7
    /\ medicines[6].id = 6 /\ medicines[7].id = 7
    /\ last.op = "create_medicine" /\ last.id = 7

\* C7: GET /medicines/{id} for an id that is absent from the store (or inactive)
\* answers 404, not a server error.
C7_AbsentIs404 ==
    (last.op = "get_medicine" /\ FindActive(medicines, last.id) = 0) => last.code = 404

\* ids whose histories are looked at: the ids requests name and every stored key
HistoryIds == TargetIds \cup DOMAIN temperatureData \cup DOMAIN locationData

\* C12: for every id, the temperature history and the location history answered by
\* the HTTP reads are three sequences of equal length (values, timestamps,
\* transaction hashes), and entry i of each is a field of the i-th stored event.
C12_HistoriesAligned ==
    \A id \in HistoryIds :
        LET t == get_temperature_history(temperatureData, id).body[1]
            l == get_location_history(locationData, id).body[1]
            te == Stored(temperatureData, id)
            le == Stored(locationData, id)
        IN /\ Len(t.temperatures) = Len(te)
           /\ Len(t.timestamps) = Len(te)
           /\ Len(t.transactionHashes) = Len(te)
           /\ \A i \in 1..Len(te) :
                 <<t.temperatures[i], t.timestamps[i], t.transactionHashes[i]>>
                    = <<te[i].temperature, te[i].timestamp, te[i].txHash>>
           /\ Len(l.locations) = Len(le)
           /\ Len(l.timestamps) = Len(le)
           /\ Len(l.transactionHashes) = Len(le)
           /\ \A i \in 1..Len(le) :
                 <<l.locations[i], l.timestamps[i], l.transactionHashes[i]>>
                    = <<le[i].location, le[i].timestamp, le[i].txHash>>

\* the location history of medicine 2 read after one more event was appended to
\* its three seeded ones
C12_Witness ==
    /\ last.op = "get_location_history" /\ last.id = 2 /\ last.code = 200
    /\ Len(last.body[1].locations) = 4
    /\ Len(last.body[1].timestamps) = 4
    /\ Len(last.body[1].transactionHashes) = 4

NonDecreasing(ts) == \A i \in 1..(Len(ts) - 1) : ts[i] <= ts[i + 1]

\* C13: after an update_temperature that answered success, the temperature history
\* of that id ends with the reading just sent; and in every state the timestamps of
\* every temperature history and every location history are non-decreasing.
C13_LastReadingAndOrder ==
    /\ [](\A id \in HistoryIds :
            /\ NonDecreasing(get_temperature_history(temperatureData, id).body[1].timestamps)
            /\ NonDecreasing(get_location_history(locationData, id).body[1].timestamps))
    /\ [][(Handled /\ last'.op = "update_temperature" /\ last'.code = 200) =>
            LET h == get_temperature_history(temperatureData', last'.id).body[1] IN
            /\ Len(h.temperatures) > 0
            /\ h.temperatures[Len(h.temperatures)] = last'.req.temperature
            /\ h.timestamps[Len(h.timestamps)] = now]_vars

\* a day after start-up a reading is added to the four seeded readings of medicine 2
C13_Witness ==
    /\ last.op = "update_temperature" /\ last.code = 200 /\ last.id = 2
    /\ now = 1
    /\ Len(temperatureData[2]) = 5
    /\ temperatureData[2][5].temperature = "6C"
    /\ temperatureData[2][5].timestamp = 1
    /\ temperatureData[2][4].temperature = "7C"

IsPrefix(a, b) == Len(a) <= Len(b) /\ \A i \in 1..Len(a) : a[i] = b[i]

\* the history h of id grew in this step by exactly one entry at its end
GrewByOne(h, id) ==
    /\ IsPrefix(Stored(h, id), Stored(h', id))
    /\ Len(Stored(h', id)) = Len(Stored(h, id)) + 1

\* this step answered success to one of the requests `ops` for id
Succeeded(ops, id) == Handled /\ last'.op \in ops /\ last'.code = 200 /\ last'.id = id

\* C14: histories are append-only: in every step each id's temperature and location
\* history keeps its entries in place, and it changes only by one entry added at its
\* end, in a step that answered success to update_temperature (temperature history)
\* or to update_location, transfer or create (location history) for that same id.
C14_AppendOnly ==
    [][\A id \in HistoryIds \cup DOMAIN temperatureData' \cup DOMAIN locationData' :
          /\ \/ Stored(temperatureData', id) = Stored(temperatureData, id)
             \/ /\ GrewByOne(temperatureData, id)
                /\ Succeeded({"update_temperature"}, id)
          /\ \/ Stored(locationData', id) = Stored(locationData, id)
             \/ /\ GrewByOne(locationData, id)
                /\ Succeeded({"update_location", "transfer_medicine", "create_medicine"}, id)]_vars

\* a transfer and a location update have each added one entry after the three
\* seeded locations of medicine 2
C14_Witness ==
    /\ Len(locationData[2]) = 5
    /\ SubSeq(locationData[2], 1, 3) = BLOCKCHAIN_LOCATION_DATA[2]
    /\ {locationData[2][4].location, locationData[2][5].location} = {"Loading Dock A", "Warehouse B"}

ReadOps ==
    {"get_medicine", "get_medicines", "get_medicines_by_batch", "get_temperature_history",
     "get_location_history", "get_supply_chain_stages", "get_user_role"}

\* C15: a read changes no stored medicine, history or stage, and a get_medicine
\* repeated right after a get_medicine, with no write in between, answers the same.
C15_ReadsArePure ==
    [][(Handled /\ last'.op \in ReadOps) =>
          /\ store' = store
          /\ last'.op = "get_medicine" => get_medicine(medicines', last'.id) = last']_vars

\* medicine 2 was read: the answer names its owner, the stored dict still does not
C15_Witness ==
    /\ last.op = "get_medicine" /\ last.id = 2 /\ last.code = 200
    /\ last.body[1].currentOwnerName = "Global Distributors Ltd."
    /\ medicines[2].currentOwnerName = NoValue
    /\ steps = 2

-----------------------------------------------------------------------------
(* Properties of the ledger client, checked under SvcSpec *)

WriteOps ==
    {"manufacture_medicine", "transfer_medicine", "update_temperature", "update_location",
     "mark_as_expired", "recall_medicine"}

\* C2: a write operation whose receipt reports failure ends with an error; it
\* returns neither a transaction hash nor a medicine.
C2_RejectionIsAnError ==
    (result.op \in WriteOps /\ result.receipt = 0) => result.outcome = "raise"

\* C6: on a connected client get_medicine(id) returns None and does not raise
\* when the ledger holds no medicine with that id, whether the call reverts or
\* returns the empty record.
C6_AbsentIsNone ==
    (/\ result.op = "get_medicine"
     /\ result.id \notin ChainIds
     /\ result.error # "Not connected to blockchain") =>
        /\ result.outcome = "return"
        /\ result.kind = "None"

C6_Witness ==
    /\ result.op = "get_medicine"
    /\ result.id \notin ChainIds
    /\ result.reply = "revert"
    /\ result.outcome = "return" /\ result.kind = "None"

\* C8: for an id the ledger holds, get_medicine returns a dict whose fields are
\* positions 0..9 and 15 of the ledger's record and whose status is the name of
\* the record's integer status code.
C8_DecodesRecord ==
    (/\ result.op = "get_medicine"
     /\ Len(result.raw) = 1
     /\ result.raw[1][1] = result.id) =>
        /\ result.outcome = "return"
        /\ result.kind = "dict"
        /\ LET t == result.raw[1]
               d == result.value[1]
           IN /\ <<d.id, d.name, d.batchNumber, d.manufactureDate, d.expiryDate, d.manufacturer,
                   d.currentOwner, d.temperatureThreshold, d.temperatureSensitive, d.isActive>>
                    = <<t[1], t[2], t[3], t[4], t[5], t[6], t[7], t[9], t[10], t[16]>>
              /\ d.status = StatusName(t[8])

\* C9: get_user_role returns the role the registry holds for the address, one of
\* the six role names, and does not fail for a registry value that encodes a role.
C9_RoleDecoded ==
    (result.op = "get_user_role" /\ result.reply = "code") =>
        /\ result.outcome = "return"
        /\ result.value = <<RoleName(Registry(result.args.address))>>

\* an operation that needs the ledger ended with the not-connected error without
\* having sent anything to the node
FailedNotConnected ==
    /\ result.outcome = "raise"
    /\ result.error = "Not connected to blockchain"
    /\ result.rpcs = <<>>

\* C10: with the descriptor missing or the node unreachable, the constructor
\* returns and leaves the client disconnected; a disconnected client stays so, and
\* every operation but get_contract_info then fails with the not-connected error
\* before any call or transaction reaches the node (the connectivity check
\* is_connected itself answers false, also without asking the node).
C10_DisconnectedFailsFast ==
    /\ (descriptor = "missing" \/ ~nodeUp) => (built /\ ~connected)
    /\ [][~connected => ~connected']_vars
    /\ [](~connected =>
            /\ sent = <<>>
            /\ txCount = 0
            /\ result.op = "is_connected" => (result.value = <<FALSE>> /\ result.rpcs = <<>>)
            /\ result.op \notin {"none", "get_contract_info", "is_connected"} => FailedNotConnected)

\* the node was down when the client was built and is up again when asked
C10_Witness ==
    /\ descriptor = "ok" /\ ~connected /\ nodeUp
    /\ result.op = "mark_as_expired"
    /\ FailedNotConnected

\* a step in which is_connected() was called: the call moves neither the node nor
\* the ledger
IsConnectedCalled ==
    /\ steps' # steps
    /\ result'.op = "is_connected"
    /\ nodeUp' = nodeUp
    /\ chain' = chain

\* C11: for a client whose deployment descriptor was loaded, every call of
\* is_connected() returns true exactly when the node is reachable at that call.
C11_LiveProbe ==
    [][(IsConnectedCalled /\ deployment_info # NoValue) => result'.value = <<nodeUp>>]_vars

\* the number of times a request occurs among the requests an operation sent
Count(rpcs, rpc) == Cardinality({k \in 1..Len(rpcs) : rpcs[k] = rpc})

\* C16: get_all_medicines reads the total count n once, fetches each of the ids
\* 1..n once, and returns exactly n records, the record of id i at position i.
C16_AllMedicinesComplete ==
    (result.op = "get_all_medicines" /\ result.outcome = "return") =>
        /\ Count(result.rpcs, "call getTotalMedicines") = 1
        /\ Count(result.rpcs, "call getMedicine") = result.id
        /\ Len(result.value) = result.id
        /\ \A i \in 1..Len(result.value) : result.value[i].id = i

\* a step in which the operation op was called (and not a step of the node or of
\* another signer)
Called(op) ==
    /\ steps' # steps
    /\ result'.op = op
    /\ nodeUp' = nodeUp
    /\ \/ sent' = sent /\ chain' = chain
       \/ Len(sent') = Len(sent) + 1

\* C17: when the receipt of manufacture_medicine holds no MedicineManufactured
\* event, the operation raises and returns no record, and it has sent its
\* transaction once, not again.
C17_NoEventIsAnError ==
    /\ []((result.op = "manufacture_medicine" /\ result.events = 0) =>
            /\ result.outcome = "raise"
            /\ result.value = <<>>
            /\ Count(result.rpcs, "eth_sendRawTransaction") = 1)
    /\ [][(Called("manufacture_medicine") /\ result'.events = 0) =>
            /\ Len(sent') = Len(sent) + 1
            /\ txCount' = txCount + 1]_vars

\* the transaction was mined and applied, its receipt carries no event
C17_Witness ==
    /\ result.op = "manufacture_medicine"
    /\ result.events = 0 /\ result.receipt = 1
    /\ result.outcome = "raise" /\ result.error = "IndexError"
    /\ Len(sent) = 1 /\ Len(chainMeds) = 2

\* a step in which some write operation was called
WriteCalled == \E op \in WriteOps : Called(op)

Positions(rpcs, rpc) == {k \in 1..Len(rpcs) : rpcs[k] = rpc}

\* C19: a manufacture_medicine that returns has sent its transaction, then waited
\* for the receipt, then taken the id from the event of that receipt, then read the
\* record of that id from the ledger; what it returns is what get_medicine makes of
\* the record read, which is the ledger's record of the new id after inclusion.
C19_ManufactureOrder ==
    /\ []((result.op = "manufacture_medicine" /\ result.outcome = "return") =>
            LET r == result.rpcs IN
            /\ result.receipt = 1 /\ result.events = 1
            /\ Cardinality(Positions(r, "eth_sendRawTransaction")) = 1
            /\ Positions(r, "eth_getTransactionReceipt") # {}
            /\ Positions(r, "call getMedicine") = {Len(r)}
            /\ \A i \in Positions(r, "eth_sendRawTransaction"),
                  j \in Positions(r, "eth_getTransactionReceipt") : i < j /\ j < Len(r)
            /\ Len(result.raw) = 1
            /\ result.raw[1][1] = result.id
            /\ IF DecodeMedicine(result.raw[1]).raises
               THEN result.kind = "None" /\ result.value = <<>>
               ELSE result.kind = "dict" /\ result.value = DecodeMedicine(result.raw[1]).dict)
    /\ [][(Called("manufacture_medicine") /\ result'.outcome = "return") =>
            /\ Len(chainMeds') = Len(chainMeds) + 1
            /\ result'.id = Len(chainMeds')
            /\ result'.raw = <<chainMeds'[Len(chainMeds')]>>]_vars

\* a second medicine was manufactured and its record read back from the ledger
C19_Witness ==
    /\ result.op = "manufacture_medicine" /\ result.outcome = "return"
    /\ result.events = 1
    /\ Len(chainMeds) = 2
    /\ result.raw = <<chainMeds[2]>>
    /\ chainMeds[2][2] = "Aspirin"

\* C20: every transaction a write operation broadcasts carries the signer's
\* transaction count as read in that same operation, and no two transactions
\* broadcast by the service carry the same nonce.
C20_NoncesDistinct ==
    /\ [][Len(sent') = Len(sent) + 1 => sent'[Len(sent')].nonce = txCount]_vars
    /\ [](\A i, j \in 1..Len(sent) : sent[i].nonce = sent[j].nonce => i = j)

\* C21: a transfer_medicine call of a connected client, whatever the medicine's
\* status on the ledger and whichever of the eight statuses is the target, broadcasts
\* exactly one transferMedicine transaction that carries the target's status code;
\* the client refuses nothing itself.
C21_TransferAlwaysSubmits ==
    [][(/\ Called("transfer_medicine")
        /\ is_connected /\ contracts # NoValue
        /\ result'.args.newStatus \in MedicineStatus
        /\ result'.error # "Not connected to blockchain")
       => /\ Len(sent') = Len(sent) + 1
          /\ sent'[Len(sent')].fn = "transferMedicine"
          /\ sent'[Len(sent')].id = result'.id
          /\ sent'[Len(sent')].args.statusCode = StatusCode(result'.args.newStatus)]_vars

\* the dict d holds in the next state what it held, but for the key id
SameElsewhere(d, dnext, id) ==
    /\ (DOMAIN dnext) \ {id} = (DOMAIN d) \ {id}
    /\ \A k \in (DOMAIN d) \ {id} : dnext[k] = d[k]

\* C22: an update_temperature or update_location that answered success has added
\* one entry at the end of the one history it names for that id; the medicines (that
\* of the id included), the other kind of history, the stage timelines and the
\* histories of the other ids are what they were.
C22_UpdateTouchesOneHistory ==
    [][/\ (Handled /\ last'.op = "update_temperature" /\ last'.code = 200) =>
            /\ GrewByOne(temperatureData, last'.id)
            /\ SameElsewhere(temperatureData, temperatureData', last'.id)
            /\ medicines' = medicines /\ locationData' = locationData /\ stagesData' = stagesData
       /\ (Handled /\ last'.op = "update_location" /\ last'.code = 200) =>
            /\ GrewByOne(locationData, last'.id)
            /\ SameElsewhere(locationData, locationData', last'.id)
            /\ medicines' = medicines /\ temperatureData' = temperatureData
            /\ stagesData' = stagesData]_vars

\* the first request after start-up moved medicine 2: one location more for it, the
\* rest of the seeded store as it was
C22_Witness ==
    /\ last.op = "update_location" /\ last.code = 200 /\ last.id = 2
    /\ steps = 1
    /\ Len(locationData[2]) = Len(BLOCKCHAIN_LOCATION_DATA[2]) + 1
    /\ locationData[1] = BLOCKCHAIN_LOCATION_DATA[1]
    /\ medicines = BLOCKCHAIN_MEDICINES
    /\ temperatureData = BLOCKCHAIN_TEMPERATURE_DATA
    /\ stagesData = BLOCKCHAIN_STAGES_DATA

HttpWriteOps ==
    {"transfer_medicine", "update_temperature", "update_location", "mark_medicine_expired",
     "recall_medicine"}

\* C23: a transfer, temperature update, location update, expire or recall for an id
\* that no stored medicine has is answered with an error and changes nothing: the
\* medicines, the temperature data, the location data and the stage data are what
\* they were, and none of the three dicts has gained a key for that id.
C23_AbsentIdWritesNothing ==
    [][(/\ Handled /\ last'.op \in HttpWriteOps
        /\ \A i \in 1..Len(medicines) : medicines[i].id # last'.id)
       => /\ last'.code >= 400
          /\ last'.body = <<>>
          /\ store' = store
          /\ (DOMAIN temperatureData') \cup (DOMAIN locationData') \cup (DOMAIN stagesData')
                = (DOMAIN temperatureData) \cup (DOMAIN locationData) \cup (DOMAIN stagesData)]_vars

\* a temperature update for id 6, which was never created, was refused; no history
\* and no stage list exists for it
C23_Witness ==
    /\ last.op = "update_temperature" /\ last.id = 6 /\ last.code = 400
    /\ \A i \in 1..Len(medicines) : medicines[i].id # 6
    /\ 6 \notin (DOMAIN temperatureData) \cup (DOMAIN locationData) \cup (DOMAIN stagesData)

\* the readings of id that were added after start-up
AddedReadings(id) ==
    Len(Stored(temperatureData, id)) - Len(Stored(BLOCKCHAIN_TEMPERATURE_DATA, id))

\* C24: an update_temperature for a stored medicine whose temperatureSensitive flag
\* is false is answered with an error and leaves the store as it was; and in every
\* state each id that has a reading added since start-up is the id of a stored
\* medicine whose flag is true.
C24_OnlySensitiveGetReadings ==
    /\ [][(/\ Handled /\ last'.op = "update_temperature"
            /\ \E i \in 1..Len(medicines) :
                  medicines[i].id = last'.id /\ ~medicines[i].temperatureSensitive)
           => /\ last'.code >= 400
              /\ last'.body = <<>>
              /\ store' = store]_vars
    /\ [](\A id \in DOMAIN temperatureData :
            AddedReadings(id) > 0 =>
                \E i \in 1..Len(medicines) :
                    medicines[i].id = id /\ medicines[i].temperatureSensitive)

\* the seeded medicine 5 is not temperature sensitive; the reading sent for it was
\* refused and it has no temperature history
C24_Witness ==
    /\ last.op = "update_temperature" /\ last.id = 5 /\ last.code = 400
    /\ Len(medicines) = 5
    /\ medicines[5].id = 5 /\ ~medicines[5].temperatureSensitive
    /\ 5 \notin DOMAIN temperatureData

\* C25: every stored medicine has a stage timeline that is not empty, starts with
\* the MANUFACTURED stage and ends with an entry whose stage and owner are the
\* medicine's status and currentOwner.
C25_TimelineMatchesMedicine ==
    \A i \in 1..Len(medicines) :
        LET m == medicines[i]
            stages == Stored(stagesData, m.id)
        IN /\ stages # <<>>
           /\ stages[1].stage = "MANUFACTURED"
           /\ stages[Len(stages)].stage = m.status
           /\ stages[Len(stages)].owner = m.currentOwner

====
